---- MODULE Spec2Model ----
(***************************************************************************)
(* A model of foldingdiff's NERF chain builder (foldingdiff/nerf.py), of   *)
(* the internal-coordinate table extraction (protdiff/angles_to_coords.py) *)
(* and of the diffusion sampling loop (protdiff/sampling.py).              *)
(*                                                                         *)
(* Specifications.  Spec: the builder.  SpecPlace: place_dihedral called   *)
(* on its own.  SpecTable: the table of internals and create_new_chain.    *)
(* SpecSampling: p_sample_loop.  SpecSample: sample, batch by batch, each  *)
(* batch running p_sample_loop.                                            *)
(*                                                                         *)
(* Numbers.  Coordinates live on the integer lattice and angles are whole  *)
(* quarter turns (q stands for q*pi/2), so that cos and sin are exactly    *)
(* -1, 0 or 1 and every norm taken while building is a whole number.  A    *)
(* float that may be not-a-number is a record with a nan flag.             *)
(* Python indices are 0-based; a Python index j is element j+1 here.       *)
(*                                                                         *)
(* The builder's torch mode runs the same statements with torch operations *)
(* and is not told apart.  Assertions are enabled (no python -O).          *)
(***************************************************************************)
EXTENDS Integers, Sequences, FiniteSets, TLC

\* ------------------------------------------------------------------ bounds

\* Longest phi / psi / omega sequence (residues) given to the builder.
MaxLen == 3

\* The torsion inputs are q[j] = (offset + j*step) mod 4 for step in 0..MaxStep.
MaxStep == 1

\* --------------------------------------------------------------- variables

VARIABLES
    pc,                 \* "new" | "ready" | "building" | "ctor_error" | "idle"
    phi_dihedrals,      \* constructor argument: 1-d array of torsions
    psi_dihedrals,
    omega_dihedrals,
    init_coords_arg,    \* constructor argument init_coords
    phi,                \* self.phi   = phi_dihedrals.squeeze()
    psi,                \* self.psi
    omega,              \* self.omega
    bond_lengths,       \* self.bond_lengths : bond -> scalar or sequence
    bond_angles,        \* self.bond_angles
    init_coords,        \* self.init_coords
    cart_cache,         \* the cached_property slot of cartesian_coords
    cent_cache,         \* the cached_property slot of centered_cartesian_coords
    reader,             \* the property whose read started the running build
    retval,             \* local of cartesian_coords: the atoms placed so far
    i,                  \* residue index of the running enumerate(zip(...))
    k,                  \* the next placement of the inner loop (0..2), 3: none left
    tors,               \* the (phi, psi, omega) tuple zip yielded for residue i
    placements,         \* history: one record per place_dihedral call of this build
    slotsRead,          \* history: the torsion slots zip has fetched
    builds,             \* history: builds that completed (placement loop ran to its end)
    centeredComputes,   \* history: mean subtractions computed
    lastRead,           \* history: the last finished property read
    result,             \* the value the last finished read returned
    error,              \* the exception the last operation raised, or "none"
    \* --- p_sample_loop (sampling.py)
    s_pc,               \* "idle" | "loop" | "done" | "raised"
    timesteps,          \* argument timesteps
    is_angle,           \* argument is_angle: a bool or a list of bools
    noise,              \* argument noise, at one (row, position): ft -> value
    n_rows,             \* b = noise.shape[0]
    n_lengths,          \* len(lengths)
    t,                  \* the loop variable i of p_sample_loop
    img,                \* local img at that (row, position)
    imgs,               \* local imgs: the recorded steps
    raws,               \* history: what each p_sample call returned
    xs,                 \* history: the x each p_sample call was given
    ts,                 \* history: the timestep of each p_sample call
    s_error,            \* the exception p_sample_loop raised, or "none"
    \* --- canonical_distances_and_dihedrals, create_new_chain
    t_pc,               \* "idle" | "rows" | "done" | "none" | "applied"
    n_chains,           \* chains of the parsed structure
    rebuild_pass,       \* ic_rebuild.structure_rebuild_test(chain)["pass"]
    use_radians,        \* argument use_radians
    ric_list,           \* ic.ordered_aa_ic_list: what get_length / get_angle give
    row,                \* residues processed so far
    values,             \* local values: the rows appended so far
    table,              \* the returned DataFrame, row by row
    new_chain,          \* create_new_chain: what set_angle / set_length were given
    \* --- place_dihedral called on its own (nerf.py)
    pd_pc,              \* "off" | "args" | "returned" | "raised"
    pd_a,               \* argument a
    pd_b,               \* argument b
    pd_c,               \* argument c
    pd_ndim,            \* a.ndim
    pd_bond_angle,      \* argument bond_angle, in quarter turns
    pd_bond_length,     \* argument bond_length
    pd_torsion_angle,   \* argument torsion_angle
    pd_out,             \* history: what each call with these arguments returned
    pd_error,           \* the exception the call raised, or "none"
    \* --- sample (sampling.py)
    sm_pc,              \* "off" | "batches" | "in_loop" | "done" | "raised"
    n_samples,          \* argument n
    batch_size,         \* argument batch_size
    dset_timesteps,     \* train_dset.timesteps
    groups,             \* utils.num_to_groups(n, batch_size)
    batch_no,           \* batches of groups taken so far
    sample_retval,      \* local retval: one entry (batch, row) per trajectory
    sm_error            \* the exception sample raised, or "none"

builderVars ==
    << pc, phi_dihedrals, psi_dihedrals, omega_dihedrals, init_coords_arg,
       phi, psi, omega, bond_lengths, bond_angles, init_coords, cart_cache,
       cent_cache, reader, retval, i, k, tors, placements, slotsRead, builds,
       centeredComputes, lastRead, result, error >>

samplingVars ==
    << s_pc, timesteps, is_angle, noise, n_rows, n_lengths, t, img, imgs, raws, xs,
       ts, s_error >>

tableVars ==
    << t_pc, n_chains, rebuild_pass, use_radians, ric_list, row, values, table,
       new_chain >>

placeVars ==
    << pd_pc, pd_a, pd_b, pd_c, pd_ndim, pd_bond_angle, pd_bond_length,
       pd_torsion_angle, pd_out, pd_error >>

sampleVars ==
    << sm_pc, n_samples, batch_size, dset_timesteps, groups, batch_no,
       sample_retval, sm_error >>

vars == << builderVars, samplingVars, tableVars, placeVars, sampleVars >>

\* ------------------------------------------------------------ float values

\* A torsion value: q quarter turns, or not-a-number.
Q(q) == [nan |-> FALSE, q |-> q % 4]
NaNQ == [nan |-> TRUE, q |-> 0]

\* A numpy array of numbers: v is the flattened data.
Arr(v) == [nan |-> FALSE, v |-> v]
NaNVec == [nan |-> TRUE, v |-> <<0, 0, 0>>]

\* cos and sin of q quarter turns.
Cos4(q) == CASE q % 4 = 0 -> 1 [] q % 4 = 1 -> 0 [] q % 4 = 2 -> -1 [] OTHER -> 0
Sin4(q) == CASE q % 4 = 0 -> 0 [] q % 4 = 1 -> 1 [] q % 4 = 2 -> 0 [] OTHER -> -1

\* ------------------------------------------------------------- nerf.py data

\* The keys of self.bond_lengths in insertion order (nerf.py:60-64).
BondOrder == << <<"C", "N">>, <<"N", "CA">>, <<"CA", "C">> >>
Bonds == {BondOrder[j] : j \in 1..3}

\* A bond table entry: a Python float, a Python int, or a per-residue sequence.
FloatScalar(x) == [kind |-> "float", val |-> x, seq |-> <<>>]
IntScalar(x) == [kind |-> "int", val |-> x, seq |-> <<>>]
PerResidue(s) == [kind |-> "seq", val |-> 0, seq |-> s]

\* x.squeeze() of a 1-d array: a single element leaves a 0-d array.
squeeze(a) == [ndim |-> IF Len(a) = 1 THEN 0 ELSE 1, data |-> a]

\* The reference N, CA, C geometry (N_INIT, CA_INIT, C_INIT), on the lattice.
N_INIT == Arr(<<1, 0, 0>>)
CA_INIT == Arr(<<0, 0, 0>>)
C_INIT == Arr(<<0, 1, 0>>)

NotCached == [has |-> FALSE, val |-> <<>>]
Cached(x) == [has |-> TRUE, val |-> x]

\* ------------------------------------------------------- place_dihedral

Sub(x, y) == <<x[1] - y[1], x[2] - y[2], x[3] - y[3]>>
Add(x, y) == <<x[1] + y[1], x[2] + y[2], x[3] + y[3]>>
Dot(x, y) == x[1] * y[1] + x[2] * y[2] + x[3] * y[3]

\* np.cross
cross(x, y) ==
    << x[2] * y[3] - x[3] * y[2],
       x[3] * y[1] - x[1] * y[3],
       x[1] * y[2] - x[2] * y[1] >>

\* np.linalg.norm, on vectors whose norm is a whole number.
IsNorm(x, r) == r * r <= Dot(x, x) /\ Dot(x, x) < (r + 1) * (r + 1)
norm(x) == CHOOSE r \in 0..Dot(x, x) : IsNorm(x, r)

Quot(a, d) == IF a >= 0 THEN a \div d ELSE -((-a) \div d)

\* unit_vec = lambda x: x / np.linalg.norm(x); 0/0 is not-a-number.
unit_vec(x) ==
    IF norm(x) = 0 THEN NaNVec
    ELSE Arr(<<Quot(x[1], norm(x)), Quot(x[2], norm(x)), Quot(x[3], norm(x))>>)

\* m.dot(d) for m = stack([bc, nbc, n]).T : the columns of m are bc, nbc, n.
FrameDot(bc, nbc, n, d) ==
    << bc[1] * d[1] + nbc[1] * d[2] + n[1] * d[3],
       bc[2] * d[1] + nbc[2] * d[2] + n[2] * d[3],
       bc[3] * d[1] + nbc[3] * d[2] + n[3] * d[3] >>

\* Variant of LocalOffset: cos and sin of the torsion exchanged.
LocalOffsetSwapped(bond_angle, bond_length, q) ==
    << -bond_length * Cos4(bond_angle),
       bond_length * Sin4(q) * Sin4(bond_angle),
       bond_length * Cos4(q) * Sin4(bond_angle) >>

\* The offset in the local frame (nerf.py:170-176).
LocalOffset(bond_angle, bond_length, q) ==
    << -bond_length * Cos4(bond_angle),
       bond_length * Cos4(q) * Sin4(bond_angle),
       bond_length * Sin4(q) * Sin4(bond_angle) >>

place_dihedral(a, b, c, bond_angle, bond_length, torsion_angle) ==
    IF a.nan \/ b.nan \/ c.nan \/ torsion_angle.nan THEN NaNVec
    ELSE LET ab == Sub(b.v, a.v)
             bc == unit_vec(Sub(c.v, b.v))
         IN  IF bc.nan THEN NaNVec
             ELSE LET n == unit_vec(cross(ab, bc.v))
                  IN  IF n.nan THEN NaNVec
                      ELSE LET nbc == cross(n.v, bc.v)
                               d == LocalOffset(bond_angle, bond_length,
                                                torsion_angle.q)
                           IN  Arr(Add(FrameDot(bc.v, nbc, n.v, d), c.v))

\* ------------------------------------------------- bond table lookups

Raised(e) == [ok |-> FALSE, val |-> 0, err |-> e]
Returned(x) == [ok |-> TRUE, val |-> x, err |-> "none"]

\* v = table[bond]; if isinstance(v, float): return v; return v[idx]
Lookup(v, idx) ==
    CASE v.kind = "float" -> Returned(v.val)
      [] v.kind = "int" -> Raised("TypeError")
      [] OTHER -> IF idx + 1 \in 1..Len(v.seq)
                  THEN Returned(v.seq[idx + 1])
                  ELSE Raised("IndexError")

get_bond_length(bond, idx) == Lookup(bond_lengths[bond], idx)
get_bond_angle(bond, idx) == Lookup(bond_angles[bond], idx)

\* ------------------------------------------------------ builder inputs

\* A torsion array of `len` residues: whole quarter turns, with the undefined
\* terminal slot (residue `undefinedAt`) holding not-a-number when `sentinel`.
TorsionArray(len, offset, step, undefinedAt, sentinel) ==
    [j \in 1..len |->
        IF sentinel /\ j = undefinedAt THEN NaNQ ELSE Q(offset + j * step)]

\* Per-residue bond lengths and bond angles of `len` entries.
LengthSeq(len) == [j \in 1..len |-> 1 + (j % 2)]
AngleSeq(len) == [j \in 1..len |-> IF j % 2 = 1 THEN 1 ELSE 3]

LengthEntries ==
    {FloatScalar(1), IntScalar(1)} \cup {PerResidue(LengthSeq(l)) : l \in 1..MaxLen}
AngleEntries ==
    {FloatScalar(1), IntScalar(1)} \cup {PerResidue(AngleSeq(l)) : l \in 1..MaxLen}

\* init_coords arguments: the default, a wrong number of coordinates, and a
\* coordinate with a wrong number of components.
DefaultInitCoords == <<N_INIT, CA_INIT, C_INIT>>
BadInitCoords ==
    { <<N_INIT, CA_INIT>>,
      <<N_INIT, CA_INIT, C_INIT, Arr(<<1, 1, 0>>)>>,
      <<Arr(<<1, 0>>), CA_INIT, C_INIT>>,
      <<N_INIT, CA_INIT, Arr(<<0, 1, 0, 0>>)>> }

NoRead == [prop |-> "none", hit |-> FALSE, raised |-> FALSE]

\* The state before NERFBuilder(...) runs: only the arguments are fixed.
BuilderInit ==
    /\ pc = "new"
    /\ \E lp \in 1..MaxLen, ls \in 1..MaxLen, lo \in 1..MaxLen,
          step \in 0..MaxStep, sentinel \in BOOLEAN :
            /\ phi_dihedrals = TorsionArray(lp, 0, step, 1, sentinel)
            /\ psi_dihedrals = TorsionArray(ls, 1, step, ls, sentinel)
            /\ omega_dihedrals = TorsionArray(lo, 2, step, lo, sentinel)
            /\ \/ /\ init_coords_arg = DefaultInitCoords
                  /\ \E le \in LengthEntries, ae \in AngleEntries :
                        /\ bond_lengths = [b \in Bonds |-> le]
                        /\ bond_angles = [b \in Bonds |-> ae]
               \/ /\ init_coords_arg \in BadInitCoords
                  /\ lp = ls /\ ls = lo /\ step = 0
                  /\ bond_lengths = [b \in Bonds |-> FloatScalar(1)]
                  /\ bond_angles = [b \in Bonds |-> FloatScalar(1)]
    /\ phi = squeeze(<<>>)
    /\ psi = squeeze(<<>>)
    /\ omega = squeeze(<<>>)
    /\ init_coords = <<>>
    /\ cart_cache = NotCached
    /\ cent_cache = NotCached
    /\ reader = "none"
    /\ retval = <<>>
    /\ i = 0
    /\ k = 3
    /\ tors = <<>>
    /\ placements = <<>>
    /\ slotsRead = {}
    /\ builds = 0
    /\ centeredComputes = 0
    /\ lastRead = NoRead
    /\ result = <<>>
    /\ error = "none"

\* -------------------------------------------------- NERFBuilder.__init__

\* Variant of InitCoordsValid: the second assert left out.
InitCoordsCountOnly(cs) == Len(cs) = 3

\* [c.squeeze() for c in init_coords]; len(...) == 3; all(c.size == 3 ...)
InitCoordsValid(cs) ==
    /\ Len(cs) = 3
    /\ \A j \in 1..Len(cs) : Len(cs[j].v) = 3

Construct ==
    /\ pc = "new"
    /\ phi' = squeeze(phi_dihedrals)
    /\ psi' = squeeze(psi_dihedrals)
    /\ omega' = squeeze(omega_dihedrals)
    /\ init_coords' = init_coords_arg
    /\ IF InitCoordsValid(init_coords_arg)
       THEN pc' = "ready" /\ error' = "none"
       ELSE pc' = "ctor_error" /\ error' = "AssertionError"
    /\ UNCHANGED << phi_dihedrals, psi_dihedrals, omega_dihedrals,
                    init_coords_arg, bond_lengths, bond_angles, cart_cache,
                    cent_cache, reader, retval, i, k, tors, placements,
                    slotsRead, builds, centeredComputes, lastRead, result >>
    /\ UNCHANGED << samplingVars, tableVars, placeVars, sampleVars >>

\* ------------------------------------------- NERFBuilder.cartesian_coords

\* Variant of PhiSlot: phi taken from the same residue as psi and omega.
PhiSlotUnshifted(j) == j

\* The residue slot behind element j of self.phi[1:], self.psi[:-1] and
\* self.omega[:-1] (nerf.py:88).
PhiSlot(j) == j + 1
PsiSlot(j) == j
OmegaSlot(j) == j

\* len(x[1:]) = len(x[:-1]) for a 1-d array x.
SliceLen(x) == IF Len(x.data) = 0 THEN 0 ELSE Len(x.data) - 1

\* Slicing a 0-d array raises IndexError.
SliceRaises == phi.ndim = 0 \/ psi.ndim = 0 \/ omega.ndim = 0

\* Variant of ZipHas: the loop runs over phi[1:] alone.
ZipHasPhiOnly(j) == j < SliceLen(phi)

\* zip stops at the first exhausted iterator, asking phi, then psi, then omega.
ZipHas(j) == j < SliceLen(phi) /\ j < SliceLen(psi) /\ j < SliceLen(omega)

ZipFetched(j) ==
    (IF j < SliceLen(phi) THEN {<<"phi", PhiSlot(j)>>} ELSE {})
    \cup (IF j < SliceLen(phi) /\ j < SliceLen(psi)
          THEN {<<"psi", PsiSlot(j)>>} ELSE {})
    \cup (IF ZipHas(j) THEN {<<"omega", OmegaSlot(j)>>} ELSE {})

Fetch(name, x, slot) == [slot |-> <<name, slot>>, val |-> x.data[slot + 1]]

ZipItem(j) ==
    [phi |-> Fetch("phi", phi, PhiSlot(j)),
     psi |-> Fetch("psi", psi, PsiSlot(j)),
     omega |-> Fetch("omega", omega, OmegaSlot(j))]

\* Variant of DihOrder: the torsions in the order zip yielded them.
DihOrderAsGiven == <<"phi", "psi", "omega">>

\* zip(self.bond_lengths.keys(), [psi, omega, phi]) (nerf.py:94)
DihOrder == <<"psi", "omega", "phi">>

\* retval[-3], retval[-2], retval[-1] as positions of retval (nerf.py:96-98)
Context(rv) == <<Len(rv) - 2, Len(rv) - 1, Len(rv)>>

\* Variants of StoreCartesian and StoreCentered: a plain @property keeps nothing.
PlainPropertyCartesian(x) == NotCached
PlainPropertyCentered(x) == NotCached

\* What functools.cached_property keeps in the instance after the first read.
StoreCartesian(x) == Cached(x)
StoreCentered(x) == Cached(x)

RECURSIVE SumV(_)
SumV(cs) == IF cs = <<>> THEN <<0, 0, 0>> ELSE Add(cs[1].v, SumV(Tail(cs)))

\* self.cartesian_coords - self.cartesian_coords.mean(axis=0).  A centred
\* coordinate is v / den: (n*x - sum) / n for the n atoms of the chain.
Centered(cs) ==
    IF \E j \in 1..Len(cs) : cs[j].nan
    THEN [j \in 1..Len(cs) |-> [nan |-> TRUE, den |-> 1, v |-> <<0, 0, 0>>]]
    ELSE [j \in 1..Len(cs) |->
            [nan |-> FALSE, den |-> Len(cs),
             v |-> Sub(<<Len(cs) * cs[j].v[1], Len(cs) * cs[j].v[2],
                         Len(cs) * cs[j].v[3]>>, SumV(cs))]]

Finished(prop, hit) == [prop |-> prop, hit |-> hit, raised |-> FALSE]
Aborted(prop) == [prop |-> prop, hit |-> FALSE, raised |-> TRUE]

\* The first statement of cartesian_coords up to the zip(...) of line 87.
StartBuild(prop) ==
    IF SliceRaises
    THEN /\ error' = "IndexError"
         /\ lastRead' = Aborted(prop)
         /\ UNCHANGED << pc, reader, retval, i, k, placements, slotsRead >>
    ELSE /\ pc' = "building"
         /\ reader' = prop
         /\ retval' = init_coords
         /\ i' = 0
         /\ k' = 3
         /\ placements' = <<>>
         /\ slotsRead' = {}
         /\ error' = "none"
         /\ UNCHANGED lastRead

\* A read of builder.cartesian_coords.
ReadCartesian ==
    /\ pc = "ready"
    /\ IF cart_cache.has
       THEN /\ result' = cart_cache.val
            /\ lastRead' = Finished("cartesian", TRUE)
            /\ error' = "none"
            /\ UNCHANGED << pc, reader, retval, i, k, placements, slotsRead >>
       ELSE /\ StartBuild("cartesian")
            /\ UNCHANGED result
    /\ UNCHANGED << phi_dihedrals, psi_dihedrals, omega_dihedrals,
                    init_coords_arg, phi, psi, omega, bond_lengths,
                    bond_angles, init_coords, cart_cache, cent_cache, tors,
                    builds, centeredComputes >>
    /\ UNCHANGED << samplingVars, tableVars, placeVars, sampleVars >>

\* A read of builder.centered_cartesian_coords.
ReadCentered ==
    /\ pc = "ready"
    /\ IF cent_cache.has
       THEN /\ result' = cent_cache.val
            /\ lastRead' = Finished("centered", TRUE)
            /\ error' = "none"
            /\ UNCHANGED << pc, reader, retval, i, k, placements, slotsRead,
                            cent_cache, centeredComputes >>
       ELSE IF cart_cache.has
       THEN /\ cent_cache' = StoreCentered(Centered(cart_cache.val))
            /\ centeredComputes' = centeredComputes + 1
            /\ result' = Centered(cart_cache.val)
            /\ lastRead' = Finished("centered", FALSE)
            /\ error' = "none"
            /\ UNCHANGED << pc, reader, retval, i, k, placements, slotsRead >>
       ELSE /\ StartBuild("centered")
            /\ UNCHANGED << result, cent_cache, centeredComputes >>
    /\ UNCHANGED << phi_dihedrals, psi_dihedrals, omega_dihedrals,
                    init_coords_arg, phi, psi, omega, bond_lengths,
                    bond_angles, init_coords, cart_cache, tors, builds >>
    /\ UNCHANGED << samplingVars, tableVars, placeVars, sampleVars >>

\* enumerate(zip(...)) yields the next (i, (phi, psi, omega)).
ZipYield ==
    /\ pc = "building"
    /\ k = 3
    /\ ZipHas(i)
    /\ tors' = ZipItem(i)
    /\ slotsRead' = slotsRead \cup ZipFetched(i)
    /\ k' = 0
    /\ UNCHANGED << pc, phi_dihedrals, psi_dihedrals, omega_dihedrals,
                    init_coords_arg, phi, psi, omega, bond_lengths,
                    bond_angles, init_coords, cart_cache, cent_cache, reader,
                    retval, i, placements, builds, centeredComputes,
                    lastRead, result, error >>
    /\ UNCHANGED << samplingVars, tableVars, placeVars, sampleVars >>

\* One pass of the inner loop: a place_dihedral call and retval.append.
Place ==
    /\ pc = "building"
    /\ k < 3
    /\ get_bond_angle(BondOrder[k + 1], i).ok
    /\ get_bond_length(BondOrder[k + 1], i).ok
    /\ LET ctx == Context(retval)
           dih == tors[DihOrder[k + 1]]
           coords == place_dihedral(
                         retval[ctx[1]], retval[ctx[2]], retval[ctx[3]],
                         get_bond_angle(BondOrder[k + 1], i).val,
                         get_bond_length(BondOrder[k + 1], i).val,
                         dih.val)
       IN  /\ retval' = Append(retval, coords)
           /\ placements' = Append(placements,
                  [residue |-> i, bond |-> BondOrder[k + 1],
                   torsion |-> dih.slot, ctx |-> ctx,
                   at |-> Len(retval) + 1, coords |-> coords])
    /\ k' = k + 1
    /\ i' = IF k = 2 THEN i + 1 ELSE i
    /\ UNCHANGED << pc, phi_dihedrals, psi_dihedrals, omega_dihedrals,
                    init_coords_arg, phi, psi, omega, bond_lengths,
                    bond_angles, init_coords, cart_cache, cent_cache, reader,
                    tors, slotsRead, builds, centeredComputes, lastRead,
                    result, error >>
    /\ UNCHANGED << samplingVars, tableVars, placeVars, sampleVars >>

\* A bond table lookup raises: the read ends with the exception, nothing cached.
PlaceRaise ==
    /\ pc = "building"
    /\ k < 3
    /\ \/ ~get_bond_angle(BondOrder[k + 1], i).ok
       \/ ~get_bond_length(BondOrder[k + 1], i).ok
    /\ error' = IF ~get_bond_angle(BondOrder[k + 1], i).ok
                THEN get_bond_angle(BondOrder[k + 1], i).err
                ELSE get_bond_length(BondOrder[k + 1], i).err
    /\ pc' = "ready"
    /\ retval' = <<>>
    /\ lastRead' = Aborted(reader)
    /\ UNCHANGED << phi_dihedrals, psi_dihedrals, omega_dihedrals,
                    init_coords_arg, phi, psi, omega, bond_lengths,
                    bond_angles, init_coords, cart_cache, cent_cache, reader,
                    i, k, tors, placements, slotsRead, builds,
                    centeredComputes, result >>
    /\ UNCHANGED << samplingVars, tableVars, placeVars, sampleVars >>

\* zip is exhausted: return np.array(retval), which cached_property stores;
\* a read of centered_cartesian_coords goes on to subtract the mean.
BuildReturn ==
    /\ pc = "building"
    /\ k = 3
    /\ ~ZipHas(i)
    /\ slotsRead' = slotsRead \cup ZipFetched(i)
    /\ cart_cache' = StoreCartesian(retval)
    /\ builds' = builds + 1
    /\ IF reader = "centered"
       THEN /\ cent_cache' = StoreCentered(Centered(retval))
            /\ centeredComputes' = centeredComputes + 1
            /\ result' = Centered(retval)
       ELSE /\ result' = retval
            /\ UNCHANGED << cent_cache, centeredComputes >>
    /\ lastRead' = Finished(reader, FALSE)
    /\ pc' = "ready"
    /\ retval' = <<>>
    /\ UNCHANGED << phi_dihedrals, psi_dihedrals, omega_dihedrals,
                    init_coords_arg, phi, psi, omega, bond_lengths,
                    bond_angles, init_coords, reader, i, k, tors, placements,
                    error >>
    /\ UNCHANGED << samplingVars, tableVars, placeVars, sampleVars >>

\* The builder component while another component is being examined.
BuilderIdle ==
    /\ pc = "idle"
    /\ phi_dihedrals = <<>>
    /\ psi_dihedrals = <<>>
    /\ omega_dihedrals = <<>>
    /\ init_coords_arg = <<>>
    /\ phi = squeeze(<<>>)
    /\ psi = squeeze(<<>>)
    /\ omega = squeeze(<<>>)
    /\ bond_lengths = [bond \in Bonds |-> FloatScalar(1)]
    /\ bond_angles = [bond \in Bonds |-> FloatScalar(1)]
    /\ init_coords = <<>>
    /\ cart_cache = NotCached
    /\ cent_cache = NotCached
    /\ reader = "none"
    /\ retval = <<>>
    /\ i = 0
    /\ k = 3
    /\ tors = <<>>
    /\ placements = <<>>
    /\ slotsRead = {}
    /\ builds = 0
    /\ centeredComputes = 0
    /\ lastRead = NoRead
    /\ result = <<>>
    /\ error = "none"

\* ------------------------------------------------ sampling.py: p_sample_loop

\* Longest reverse process.
MaxTimesteps == 2

\* Most rows of noise, and most entries of lengths.
MaxBatch == 2

\* pi, in the unit the sampled values are counted in.
HalfTurn == 2

\* The features of one position (img.shape[-1]): a distance and an angle, as in
\* the default is_angle = [False, True, True, True].
FtNames == <<"dist", "angle">>
NumFt == Len(FtNames)

\* The values a feature takes before wrapping: below, at and above the ends
\* of [-pi, pi], and 0.
RawVals == {-(HalfTurn + 1), -HalfTurn, 0, HalfTurn + 1}
RawImgs == [1..NumFt -> RawVals]

AngleBool(x) == [kind |-> "bool", flag |-> x, flags |-> <<>>]
AngleList(l) == [kind |-> "list", flag |-> FALSE, flags |-> l]

\* The is_angle arguments: a bool, a list with one entry per feature, or a list
\* of another length.
IsAngleInputs ==
    {AngleBool(x) : x \in BOOLEAN}
    \cup {AngleList(l) : l \in [1..NumFt -> BOOLEAN]}
    \cup {AngleList(<<TRUE>>)}

\* utils.modulo_with_wrapped_range(v, range_min=-pi, range_max=pi): the value
\* of (-pi, pi] that differs from v by a multiple of 2*pi.
modulo_with_wrapped_range(v) == HalfTurn - ((HalfTurn - v) % (2 * HalfTurn))

\* Whether feature j is wrapped (sampling.py:108-119).
IsAngular(j) ==
    IF is_angle.kind = "bool" THEN is_angle.flag ELSE is_angle.flags[j]

\* img after the "Wrap if angular" block.
WrapIfAngular(x) ==
    [j \in 1..NumFt |-> IF IsAngular(j) THEN modulo_with_wrapped_range(x[j]) ELSE x[j]]

\* assert len(is_angle) == img.shape[-1] fails (sampling.py:114)
IsAngleAssertFails == is_angle.kind = "list" /\ Len(is_angle.flags) # NumFt

\* p_sample's attention mask has x.shape[0] rows and one is written per entry
\* of seq_lens (sampling.py:48-50): a row past the last raises IndexError.
MaskRaises == n_lengths > n_rows

\* Variant of Recorded: the step appended before the wrap.
RecordedBeforeWrap(raw, wrapped) == raw

\* What imgs.append(img.cpu()) records, given p_sample's output and img after
\* the wrap (sampling.py:120).
Recorded(raw, wrapped) == wrapped

\* The state on entry to p_sample_loop, imgs = [] (sampling.py:83-92).
SamplingInit ==
    /\ s_pc = "loop"
    /\ timesteps \in 1..MaxTimesteps
    /\ is_angle \in IsAngleInputs
    /\ noise \in {[j \in 1..NumFt |-> 0], [j \in 1..NumFt |-> HalfTurn + 1]}
    /\ n_rows \in 1..MaxBatch
    /\ n_lengths \in 1..MaxBatch
    /\ t = timesteps - 1
    /\ img = noise
    /\ imgs = <<>>
    /\ raws = <<>>
    /\ xs = <<>>
    /\ ts = <<>>
    /\ s_error = "none"

SamplingIdle ==
    /\ s_pc = "idle"
    /\ timesteps = 0
    /\ is_angle = AngleBool(FALSE)
    /\ noise = <<>>
    /\ n_rows = 0
    /\ n_lengths = 0
    /\ t = 0
    /\ img = <<>>
    /\ imgs = <<>>
    /\ raws = <<>>
    /\ xs = <<>>
    /\ ts = <<>>
    /\ s_error = "none"

\* One pass of the loop: p_sample, the wrap, imgs.append.  p_sample's output
\* depends on the network and on fresh Gaussian noise: any value.
LoopStep ==
    /\ s_pc = "loop"
    /\ t >= 0
    /\ ~MaskRaises
    /\ ~IsAngleAssertFails
    /\ \E raw \in RawImgs :
          /\ raws' = Append(raws, raw)
          /\ img' = WrapIfAngular(raw)
          /\ imgs' = Append(imgs, Recorded(raw, WrapIfAngular(raw)))
    /\ xs' = Append(xs, img)
    /\ ts' = Append(ts, t)
    /\ t' = t - 1
    /\ UNCHANGED << s_pc, timesteps, is_angle, noise, n_rows, n_lengths, s_error >>
    /\ UNCHANGED << builderVars, tableVars, placeVars, sampleVars >>

\* The first pass raises: in p_sample (the mask), or at the assert on is_angle
\* after p_sample has returned.
LoopRaise ==
    /\ s_pc = "loop"
    /\ t >= 0
    /\ MaskRaises \/ IsAngleAssertFails
    /\ s_pc' = "raised"
    /\ s_error' = IF MaskRaises THEN "IndexError" ELSE "AssertionError"
    /\ xs' = Append(xs, img)
    /\ ts' = Append(ts, t)
    /\ UNCHANGED << timesteps, is_angle, noise, n_rows, n_lengths, t, img, imgs, raws >>
    /\ UNCHANGED << builderVars, tableVars, placeVars, sampleVars >>

\* return torch.stack(imgs)
LoopReturn ==
    /\ s_pc = "loop"
    /\ t < 0
    /\ s_pc' = "done"
    /\ UNCHANGED << timesteps, is_angle, noise, n_rows, n_lengths, t, img, imgs,
                    raws, xs, ts, s_error >>
    /\ UNCHANGED << builderVars, tableVars, placeVars, sampleVars >>

\* ------------------------- angles_to_coords.py: the table and its consumer

\* Most residues of the parsed chain.
MaxResidues == 2

\* A float64: a number or not-a-number.
Num(x) == [nan |-> FALSE, v |-> x]
NaN == [nan |-> TRUE, v |-> 0]

\* What IC_Residue.get_length / get_angle return: a number or None.
Some(x) == [none |-> FALSE, v |-> x]
None == [none |-> TRUE, v |-> 0]

\* distances = ["0C:1N"], angles = ["phi", "psi", "omega", "tau"]
distances == <<"0C:1N">>
angles == <<"phi", "psi", "omega", "tau">>
Columns == distances \o angles

\* The defined angles of a residue, in degrees.
DegreeVals == {-180, 0, 90}

\* Residue j of n, all its defined angles being deg degrees.  The library has
\* no phi for the first residue and no psi, omega or 0C:1N for the last.
Ric(j, n, deg) ==
    [c \in {Columns[x] : x \in 1..Len(Columns)} |->
        CASE c = "phi" -> IF j = 1 THEN None ELSE Some(deg)
          [] c \in {"psi", "omega"} -> IF j = n THEN None ELSE Some(deg)
          [] c = "0C:1N" -> IF j = n THEN None ELSE Some(1)
          [] OTHER -> Some(deg)]

\* np.array([...], dtype=np.float64): None becomes not-a-number.
AsFloat64(x) == IF x.none THEN NaN ELSE Num(x.v)

\* this_angles / 180 * np.pi, pi being 2 quarter turns.
ToRadians(x) == IF x.nan THEN NaN ELSE Num((x.v * 2) \div 180)

\* Variant of nan_to_num: the array returned as built.
KeepNaN(x) == x

\* np.nan_to_num: not-a-number becomes 0.
nan_to_num(x) == IF x.nan THEN Num(0) ELSE x

\* dists_and_angles.iloc[i][angle] / np.pi * 180
ToDegrees(x) == IF x.nan THEN NaN ELSE Num((x.v * 180) \div 2)

\* np.isclose(d, 0)
IsCloseToZero(x) == ~x.nan /\ x.v = 0

TableInit ==
    /\ t_pc = "idle"
    /\ n_chains \in 1..2
    /\ rebuild_pass \in BOOLEAN
    /\ use_radians \in BOOLEAN
    /\ \E n \in 1..MaxResidues : \E degs \in [1..n -> DegreeVals] :
          ric_list = [j \in 1..n |-> Ric(j, n, degs[j])]
    /\ row = 0
    /\ values = <<>>
    /\ table = <<>>
    /\ new_chain = <<>>

TableIdle ==
    /\ t_pc = "off"
    /\ n_chains = 0
    /\ rebuild_pass = FALSE
    /\ use_radians = TRUE
    /\ ric_list = <<>>
    /\ row = 0
    /\ values = <<>>
    /\ table = <<>>
    /\ new_chain = <<>>

\* canonical_distances_and_dihedrals up to its loop: None for several chains
\* or a failed rebuild test.
ParseStructure ==
    /\ t_pc = "idle"
    /\ t_pc' = IF n_chains > 1 \/ ~rebuild_pass THEN "none" ELSE "rows"
    /\ UNCHANGED << n_chains, rebuild_pass, use_radians, ric_list, row, values,
                    table, new_chain >>
    /\ UNCHANGED << builderVars, samplingVars, placeVars, sampleVars >>

\* One pass of "for ric in ic.ordered_aa_ic_list".
AppendRow ==
    /\ t_pc = "rows"
    /\ row < Len(ric_list)
    /\ LET ric == ric_list[row + 1]
           this_dists == [x \in 1..Len(distances) |-> AsFloat64(ric[distances[x]])]
           this_angles == [x \in 1..Len(angles) |-> AsFloat64(ric[angles[x]])]
           converted == [x \in 1..Len(angles) |->
                            IF use_radians THEN ToRadians(this_angles[x])
                            ELSE this_angles[x]]
       IN  values' = Append(values, this_dists \o converted)
    /\ row' = row + 1
    /\ UNCHANGED << t_pc, n_chains, rebuild_pass, use_radians, ric_list, table,
                    new_chain >>
    /\ UNCHANGED << builderVars, samplingVars, placeVars, sampleVars >>

\* retval = np.array(values); np.nan_to_num(retval, copy=False); DataFrame.
ReturnTable ==
    /\ t_pc = "rows"
    /\ row = Len(ric_list)
    /\ table' = [r \in 1..Len(values) |->
                    [x \in 1..Len(Columns) |-> nan_to_num(values[r][x])]]
    /\ t_pc' = "done"
    /\ UNCHANGED << n_chains, rebuild_pass, use_radians, ric_list, row, values,
                    new_chain >>
    /\ UNCHANGED << builderVars, samplingVars, placeVars, sampleVars >>

\* create_new_chain(out_fname, table): the loop that applies the table to the
\* residues.  A distance close to 0 is skipped.
CreateNewChain ==
    /\ t_pc = "done"
    /\ new_chain' =
          [r \in 1..Len(table) |->
              [x \in 1..Len(Columns) |->
                  IF x > Len(distances)
                  THEN [set |-> TRUE, val |-> ToDegrees(table[r][x])]
                  ELSE IF IsCloseToZero(table[r][x])
                       THEN [set |-> FALSE, val |-> Num(0)]
                       ELSE [set |-> TRUE, val |-> table[r][x]]]]
    /\ t_pc' = "applied"
    /\ UNCHANGED << n_chains, rebuild_pass, use_radians, ric_list, row, values,
                    table >>
    /\ UNCHANGED << builderVars, samplingVars, placeVars, sampleVars >>

\* ------------------------------------------ nerf.py: place_dihedral alone

\* Largest coordinate of the points a, b, c given to place_dihedral.
MaxCoord == 1

\* Longest bond given to place_dihedral.
MaxBondLen == 1

\* Calls made with the same arguments.
MaxCalls == 2

Points == {<<x, y, z>> : x \in 0..MaxCoord, y \in 0..MaxCoord, z \in 0..MaxCoord}

\* The positions of b: the two far corners of the cube of points.
Corners == {<<0, 0, 0>>, <<MaxCoord, MaxCoord, MaxCoord>>}

\* x / np.linalg.norm(x) stays on the lattice: the norm is a whole number that
\* divides every component (or is 0).
ExactUnit(x) ==
    /\ norm(x) * norm(x) = Dot(x, x)
    /\ norm(x) > 0 => \A j \in 1..3 : x[j] % norm(x) = 0

\* The two unit_vec calls of place_dihedral (nerf.py:164-165) stay on the lattice.
LatticeFrame(a, b, c) ==
    /\ ExactUnit(Sub(c, b))
    /\ norm(Sub(c, b)) > 0 =>
          ExactUnit(cross(Sub(b, a), unit_vec(Sub(c, b)).v))

\* The arguments of a place_dihedral call: three points, a bond angle and a
\* torsion in quarter turns (the torsion possibly not-a-number), a bond length.
PlaceInit ==
    /\ pd_pc = "args"
    /\ \E a \in Points, b \in Corners, c \in Points :
          /\ LatticeFrame(a, b, c)
          /\ pd_a = Arr(a)
          /\ pd_b = Arr(b)
          /\ pd_c = Arr(c)
    /\ pd_bond_angle \in 0..3
    /\ pd_bond_length \in 1..MaxBondLen
    /\ pd_torsion_angle \in {Q(q) : q \in 0..3} \cup {NaNQ}
    /\ pd_ndim \in {1, 2}
    /\ pd_torsion_angle.nan => (pd_bond_length = 1 /\ pd_bond_angle = 1)
    /\ pd_ndim = 2 =>
          (pd_bond_length = 1 /\ pd_bond_angle = 1 /\ pd_torsion_angle = Q(0))
    /\ pd_out = <<>>
    /\ pd_error = "none"

PlaceIdle ==
    /\ pd_pc = "off"
    /\ pd_a = NaNVec
    /\ pd_b = NaNVec
    /\ pd_c = NaNVec
    /\ pd_ndim = 1
    /\ pd_bond_angle = 0
    /\ pd_bond_length = 0
    /\ pd_torsion_angle = NaNQ
    /\ pd_out = <<>>
    /\ pd_error = "none"

\* place_dihedral(a, b, c, bond_angle, bond_length, torsion_angle): the assert
\* on the dimensions, then the placement.
PlaceDihedralCall ==
    /\ pd_pc \in {"args", "returned"}
    /\ Len(pd_out) < MaxCalls
    /\ IF pd_ndim # 1
       THEN /\ pd_pc' = "raised"
            /\ pd_error' = "AssertionError"
            /\ UNCHANGED pd_out
       ELSE /\ pd_pc' = "returned"
            /\ pd_out' = Append(pd_out,
                  place_dihedral(pd_a, pd_b, pd_c, pd_bond_angle,
                                 pd_bond_length, pd_torsion_angle))
            /\ UNCHANGED pd_error
    /\ UNCHANGED << pd_a, pd_b, pd_c, pd_ndim, pd_bond_angle, pd_bond_length,
                    pd_torsion_angle >>
    /\ UNCHANGED << builderVars, samplingVars, tableVars, sampleVars >>

\* ------------------------------------------------- sampling.py: sample

\* Most trajectories asked of sample.
MaxN == 3

\* utils.num_to_groups(num, divisor): num // divisor groups of divisor, then
\* the remainder when there is one.
num_to_groups(num, divisor) ==
    [j \in 1..(num \div divisor) |-> divisor]
    \o (IF num % divisor > 0 THEN <<num % divisor>> ELSE <<>>)

\* len(lengths) for lengths = [... for _ in range(batch_size)] (sampling.py:137)
LengthsDrawn(batch, bsize) == bsize

\* The state at the call sample(model, train_dset, n, batch_size), retval = [].
SampleInit ==
    /\ sm_pc = "batches"
    /\ n_samples \in 1..MaxN
    /\ batch_size \in 1..MaxBatch
    /\ dset_timesteps \in 1..MaxTimesteps
    /\ groups = num_to_groups(n_samples, batch_size)
    /\ batch_no = 0
    /\ sample_retval = <<>>
    /\ sm_error = "none"

SampleIdle ==
    /\ sm_pc = "off"
    /\ n_samples = 0
    /\ batch_size = 0
    /\ dset_timesteps = 0
    /\ groups = <<>>
    /\ batch_no = 0
    /\ sample_retval = <<>>
    /\ sm_error = "none"

\* The next batch of "for batch in utils.num_to_groups(n, batch_size)": noise
\* of `batch` rows, batch_size lengths, and the entry to p_sample_loop with
\* is_angle=True.
SampleBatch ==
    /\ sm_pc = "batches"
    /\ batch_no < Len(groups)
    /\ sm_pc' = "in_loop"
    /\ s_pc' = "loop"
    /\ timesteps' = dset_timesteps
    /\ is_angle' = AngleBool(TRUE)
    /\ noise' \in {[j \in 1..NumFt |-> 0], [j \in 1..NumFt |-> HalfTurn + 1]}
    /\ n_rows' = groups[batch_no + 1]
    /\ n_lengths' = LengthsDrawn(groups[batch_no + 1], batch_size)
    /\ t' = dset_timesteps - 1
    /\ img' = noise'
    /\ imgs' = <<>>
    /\ raws' = <<>>
    /\ xs' = <<>>
    /\ ts' = <<>>
    /\ s_error' = "none"
    /\ UNCHANGED << n_samples, batch_size, dset_timesteps, groups, batch_no,
                    sample_retval, sm_error >>
    /\ UNCHANGED << builderVars, tableVars, placeVars >>

\* p_sample_loop returned: trimmed_sampled = [sampled[:, i, :l, :] for i, l in
\* enumerate(lengths)], one per length, each indexing row i of the batch;
\* retval.extend(trimmed_sampled).
SampleCollect ==
    /\ sm_pc = "in_loop"
    /\ s_pc = "done"
    /\ IF n_lengths > n_rows
       THEN /\ sm_pc' = "raised"
            /\ sm_error' = "IndexError"
            /\ UNCHANGED << batch_no, sample_retval >>
       ELSE /\ sm_pc' = "batches"
            /\ sample_retval' = sample_retval
                  \o [j \in 1..n_lengths |-> <<batch_no, j - 1>>]
            /\ batch_no' = batch_no + 1
            /\ UNCHANGED sm_error
    /\ s_pc' = "idle"
    /\ UNCHANGED << timesteps, is_angle, noise, n_rows, n_lengths, t, img, imgs,
                    raws, xs, ts, s_error >>
    /\ UNCHANGED << n_samples, batch_size, dset_timesteps, groups >>
    /\ UNCHANGED << builderVars, tableVars, placeVars >>

\* p_sample_loop raised: the exception leaves sample.
SampleRaise ==
    /\ sm_pc = "in_loop"
    /\ s_pc = "raised"
    /\ sm_pc' = "raised"
    /\ sm_error' = s_error
    /\ UNCHANGED << n_samples, batch_size, dset_timesteps, groups, batch_no,
                    sample_retval >>
    /\ UNCHANGED << builderVars, samplingVars, tableVars, placeVars >>

\* return retval
SampleReturn ==
    /\ sm_pc = "batches"
    /\ batch_no = Len(groups)
    /\ sm_pc' = "done"
    /\ UNCHANGED << n_samples, batch_size, dset_timesteps, groups, batch_no,
                    sample_retval, sm_error >>
    /\ UNCHANGED << builderVars, samplingVars, tableVars, placeVars >>

\* ------------------------------------------------------ specifications

Init == BuilderInit /\ SamplingIdle /\ TableIdle /\ PlaceIdle /\ SampleIdle

Next ==
    \/ Construct
    \/ ReadCartesian
    \/ ReadCentered
    \/ ZipYield
    \/ Place
    \/ PlaceRaise
    \/ BuildReturn

Spec == Init /\ [][Next]_vars

InitSampling ==
    SamplingInit /\ BuilderIdle /\ TableIdle /\ PlaceIdle /\ SampleIdle

NextSampling ==
    \/ LoopStep
    \/ LoopRaise
    \/ LoopReturn

SpecSampling == InitSampling /\ [][NextSampling]_vars

InitTable == TableInit /\ BuilderIdle /\ SamplingIdle /\ PlaceIdle /\ SampleIdle

NextTable ==
    \/ ParseStructure
    \/ AppendRow
    \/ ReturnTable
    \/ CreateNewChain

SpecTable == InitTable /\ [][NextTable]_vars

InitPlace == PlaceInit /\ BuilderIdle /\ SamplingIdle /\ TableIdle /\ SampleIdle

NextPlace == PlaceDihedralCall

SpecPlace == InitPlace /\ [][NextPlace]_vars

InitSample ==
    SampleInit /\ BuilderIdle /\ SamplingIdle /\ TableIdle /\ PlaceIdle

NextSample ==
    \/ SampleBatch
    \/ LoopStep
    \/ LoopRaise
    \/ LoopReturn
    \/ SampleCollect
    \/ SampleRaise
    \/ SampleReturn

SpecSample == InitSample /\ [][NextSample]_vars

\* ------------------------------------------------- properties: the builder

EqualLengths ==
    /\ Len(phi_dihedrals) = Len(psi_dihedrals)
    /\ Len(psi_dihedrals) = Len(omega_dihedrals)

NRes == Len(phi_dihedrals)

ShortestLen ==
    CHOOSE m \in {Len(phi_dihedrals), Len(psi_dihedrals), Len(omega_dihedrals)} :
        /\ m <= Len(phi_dihedrals)
        /\ m <= Len(psi_dihedrals)
        /\ m <= Len(omega_dihedrals)

DefaultInit == init_coords_arg = <<N_INIT, CA_INIT, C_INIT>>

ScalarBondTables ==
    \A b \in Bonds : bond_lengths[b].kind = "float" /\ bond_angles[b].kind = "float"

\* The chain as far as it exists: the running build's atoms, or the cached array.
Chain ==
    IF pc = "building" THEN retval
    ELSE IF cart_cache.has THEN cart_cache.val ELSE <<>>

\* The undefined terminal slots of the three torsion arrays.
BoundarySlots ==
    { <<"phi", 0>>, <<"psi", Len(psi_dihedrals) - 1>>,
      <<"omega", Len(omega_dihedrals) - 1>> }

UsedSlots == {placements[p].torsion : p \in 1..Len(placements)}

\* C1 (as claimed): for n >= 1 residues with equal-length phi, psi and omega, a
\* read of cartesian_coords ends with exactly 3 + 3*(n-1) coordinates.
C1_CoordCount ==
    (EqualLengths /\ DefaultInit /\ ScalarBondTables
        /\ lastRead.prop = "cartesian")
    => (~lastRead.raised /\ Len(result) = 3 + 3 * (NRes - 1))

\* C2 (as claimed): with a single residue, a read of cartesian_coords returns
\* the 3 seed coordinates in order, with no placement and no error.
C2_SingleResidue ==
    (NRes = 1 /\ EqualLengths /\ DefaultInit /\ lastRead.prop = "cartesian")
    => (~lastRead.raised /\ error = "none" /\ result = <<N_INIT, CA_INIT, C_INIT>>
        /\ placements = <<>>)

\* C3: the build never fetches phi[0], psi[last] or omega[last]; with equal
\* lengths n a finished build has passed exactly phi[1..n-1], psi[0..n-2] and
\* omega[0..n-2] to placements, and no not-a-number sentinel of a terminal slot
\* shows up in a placed coordinate.
C3_NoBoundaryRead ==
    /\ slotsRead \cap BoundarySlots = {}
    /\ UsedSlots \cap BoundarySlots = {}
    /\ UsedSlots \subseteq slotsRead
    /\ (EqualLengths /\ cart_cache.has) =>
          UsedSlots = {<<"phi", j>> : j \in 1..(NRes - 1)}
                      \cup {<<"psi", j>> : j \in 0..(NRes - 2)}
                      \cup {<<"omega", j>> : j \in 0..(NRes - 2)}
    /\ \A p \in 1..Len(placements) : ~placements[p].coords.nan
    /\ \A j \in 1..Len(Chain) : ~Chain[j].nan

\* C3 witness: a finished build of n >= 2 residues whose terminal slots hold
\* not-a-number.
C3_Witness ==
    /\ cart_cache.has
    /\ EqualLengths
    /\ NRes >= 2
    /\ phi_dihedrals[1].nan
    /\ psi_dihedrals[NRes].nan
    /\ omega_dihedrals[NRes].nan
    /\ Len(placements) = 3 * (NRes - 1)

\* The torsion the p-th placement of a build must take: psi[r], omega[r],
\* phi[r+1] for residue r = (p-1) div 3.
ExpectedTorsion(p) ==
    CASE (p - 1) % 3 = 0 ->
            [slot |-> <<"psi", (p - 1) \div 3>>,
             val |-> psi_dihedrals[(p - 1) \div 3 + 1]]
      [] (p - 1) % 3 = 1 ->
            [slot |-> <<"omega", (p - 1) \div 3>>,
             val |-> omega_dihedrals[(p - 1) \div 3 + 1]]
      [] OTHER ->
            [slot |-> <<"phi", (p - 1) \div 3 + 1>>,
             val |-> phi_dihedrals[(p - 1) \div 3 + 2]]

ExpectedBond(p) ==
    CASE (p - 1) % 3 = 0 -> <<"C", "N">>
      [] (p - 1) % 3 = 1 -> <<"N", "CA">>
      [] OTHER -> <<"CA", "C">>

\* C4: the p-th placement of a build belongs to residue (p-1) div 3, uses the
\* bonds C->N, N->CA, CA->C in turn with psi[i], omega[i], phi[i+1], takes the
\* three atoms placed last as a, b, c and appends one atom; the seed atoms and
\* every atom placed earlier stay as they were placed.
C4_PlacementOrder ==
    /\ \A p \in 1..Len(placements) :
          /\ placements[p].residue = (p - 1) \div 3
          /\ placements[p].bond = ExpectedBond(p)
          /\ placements[p].torsion = ExpectedTorsion(p).slot
          /\ placements[p].at = 3 + p
          /\ placements[p].ctx = <<p, p + 1, p + 2>>
    /\ Chain # <<>> =>
          /\ Len(Chain) = 3 + Len(placements)
          /\ <<Chain[1], Chain[2], Chain[3]>> = init_coords
          /\ \A p \in 1..Len(placements) :
                /\ Chain[3 + p] = placements[p].coords
                /\ Chain[3 + p] =
                      place_dihedral(Chain[p], Chain[p + 1], Chain[p + 2],
                          Lookup(bond_angles[ExpectedBond(p)], (p - 1) \div 3).val,
                          Lookup(bond_lengths[ExpectedBond(p)], (p - 1) \div 3).val,
                          ExpectedTorsion(p).val)

\* C4 witness: a build in its second residue, between two placements.
C4_Witness ==
    /\ pc = "building"
    /\ Len(placements) = 5
    /\ k = 2

C6_CenteredNotStored == ~cent_cache.has

\* C6 (amended): centered_cartesian_coords is a cached property too: the mean
\* subtraction is computed once, from the cached cartesian_coords, on the first
\* read, stored, and returned as stored by every later read.
C6_CenteredCachedOnce ==
    /\ centeredComputes <= 1
    /\ (centeredComputes = 1) = cent_cache.has
    /\ cent_cache.has =>
          /\ cart_cache.has
          /\ cent_cache.val = Centered(cart_cache.val)
    /\ (lastRead.prop = "centered" /\ ~lastRead.raised) =>
          /\ centeredComputes = 1
          /\ result = cent_cache.val

\* C6 witness: a read of centered_cartesian_coords served from its own cache.
C6_Witness ==
    /\ lastRead = Finished("centered", TRUE)
    /\ centeredComputes = 1
    /\ Len(result) >= 6

\* init_coords is not three coordinates of three components each.
BadInitArg ==
    \/ Len(init_coords_arg) # 3
    \/ \E j \in 1..Len(init_coords_arg) : Len(init_coords_arg[j].v) # 3

\* C7: a builder given init_coords that are not 3 coordinates of 3 components
\* fails in the constructor with an assertion error; it places no atom and is
\* never materialized.  The constructor fails for no other reason.
C7_InitCoordsValidated ==
    /\ BadInitArg =>
          /\ pc \in {"new", "ctor_error"}
          /\ placements = <<>>
          /\ ~cart_cache.has
          /\ ~cent_cache.has
          /\ builds = 0
    /\ pc = "ctor_error" => (BadInitArg /\ error = "AssertionError")

\* C7 witness: construction failed on three coordinates, one not 3-dimensional.
C7_Witness ==
    /\ pc = "ctor_error"
    /\ Len(init_coords_arg) = 3
    /\ error = "AssertionError"

\* C8 (as claimed): with phi, psi, omega of unequal lengths construction
\* succeeds and no build completes with a coordinate sequence.
C8_MismatchRaises ==
    (~EqualLengths /\ DefaultInit) => (pc # "ctor_error" /\ ~cart_cache.has)

\* C8 (amended): with unequal lengths construction succeeds and the mismatch is
\* never detected: zip stops at the shortest input, so a build that completes
\* returns 3 + 3*(m-1) coordinates for the shortest length m; a read raises only
\* when a sequence of length 1 was squeezed to 0 dimensions or a bond table
\* lookup fails.
C8_MismatchTruncates ==
    (~EqualLengths /\ DefaultInit) =>
        /\ pc # "ctor_error"
        /\ cart_cache.has =>
              /\ Len(cart_cache.val) = 3 + 3 * (ShortestLen - 1)
              /\ Len(placements) = 3 * (ShortestLen - 1)
        /\ (pc = "ready" /\ lastRead.prop # "none"
                /\ ShortestLen >= 2 /\ ScalarBondTables) =>
              (~lastRead.raised /\ cart_cache.has /\ error = "none")
        /\ (lastRead.raised /\ ShortestLen >= 2) => ~ScalarBondTables

\* C8 witness: a finished build over inputs of unequal lengths.
C8_Witness ==
    /\ ~EqualLengths
    /\ DefaultInit
    /\ cart_cache.has
    /\ ShortestLen >= 2
    /\ lastRead = Finished("cartesian", FALSE)

\* ------------------------------------- properties: the table of internals

\* Column x of residue r has no value in the parsed structure.
Undefined(r, x) == ric_list[r][Columns[x]].none

\* The defined value of column x of residue r, as the table should give it.
DefinedEntry(r, x) ==
    IF x > Len(distances) /\ use_radians
    THEN Num((ric_list[r][Columns[x]].v * 2) \div 180)
    ELSE Num(ric_list[r][Columns[x]].v)

\* C9 (as claimed): every undefined entry of the returned table is not-a-number.
C9_UndefinedIsNaN ==
    t_pc \in {"done", "applied"} =>
        \A r \in 1..Len(table) : \A x \in 1..Len(Columns) :
            Undefined(r, x) => table[r][x].nan

\* C9 (amended): the returned table holds no not-a-number: np.nan_to_num puts 0
\* in every undefined entry and leaves the defined ones, so an undefined entry
\* equals a defined entry of value 0; create_new_chain then sets every angle of
\* the table, the undefined ones as 0 degrees, and skips the distances that are 0.
C9_UndefinedIsZero ==
    /\ t_pc \in {"done", "applied"} =>
          /\ Len(table) = Len(ric_list)
          /\ \A r \in 1..Len(table) : \A x \in 1..Len(Columns) :
                /\ ~table[r][x].nan
                /\ Undefined(r, x) => table[r][x] = Num(0)
                /\ ~Undefined(r, x) => table[r][x] = DefinedEntry(r, x)
    /\ t_pc = "applied" =>
          \A r \in 1..Len(table) : \A x \in 1..Len(Columns) :
              IF x > Len(distances)
              THEN /\ new_chain[r][x].set
                   /\ new_chain[r][x].val = Num((table[r][x].v * 180) \div 2)
                   /\ Undefined(r, x) => new_chain[r][x].val = Num(0)
              ELSE new_chain[r][x].set = ~Undefined(r, x)

\* C9 witness: a table of two residues applied to a new chain, where the
\* undefined phi of the first residue and the defined phi = 0 of the second
\* are the same entry.
C9_Witness ==
    /\ t_pc = "applied"
    /\ Len(table) = 2
    /\ Undefined(1, 2)
    /\ ~Undefined(2, 2)
    /\ ric_list[2]["phi"].v = 0
    /\ table[1][2] = table[2][2]

\* ------------------------------------- properties: the sampling loop

\* Feature j is flagged angular by the is_angle argument.
Flagged(j) ==
    \/ is_angle.kind = "bool" /\ is_angle.flag
    \/ is_angle.kind = "list" /\ is_angle.flags[j]

\* C10: the loop visits timesteps-1 down to 0; after every p_sample call each
\* feature flagged angular is recorded wrapped (within [-pi, pi], a multiple of
\* 2*pi away from p_sample's output) and each other feature as p_sample gave
\* it; the first p_sample input is the noise and every later one is the step
\* just recorded.
C10_WrappedEveryStep ==
    /\ Len(imgs) = Len(raws)
    /\ \A s \in 1..Len(imgs) : \A j \in 1..NumFt :
          IF Flagged(j)
          THEN /\ imgs[s][j] >= -HalfTurn
               /\ imgs[s][j] <= HalfTurn
               /\ (imgs[s][j] - raws[s][j]) % (2 * HalfTurn) = 0
          ELSE imgs[s][j] = raws[s][j]
    /\ \A s \in 1..Len(xs) : xs[s] = IF s = 1 THEN noise ELSE imgs[s - 1]
    /\ \A s \in 1..Len(ts) : ts[s] = timesteps - s
    /\ s_pc = "loop" => img = (IF imgs = <<>> THEN noise ELSE imgs[Len(imgs)])
    /\ s_pc = "done" => (Len(imgs) = timesteps /\ Len(ts) = timesteps)

\* C10 witness: a finished loop of two or more steps with is_angle a list, in
\* which p_sample returned out-of-range values in both features of the first
\* step and in the angular feature of the last.
C10_Witness ==
    /\ s_pc = "done"
    /\ timesteps >= 2
    /\ is_angle = AngleList(<<FALSE, TRUE>>)
    /\ raws[1] = <<HalfTurn + 1, HalfTurn + 1>>
    /\ raws[timesteps][2] = -(HalfTurn + 1)
    /\ imgs[1][1] = HalfTurn + 1
    /\ imgs[1][2] # HalfTurn + 1

\* ------------------------------------- properties: place_dihedral alone

\* The arguments of the canonical fixture: a = [1,0,0], b = [0,0,0],
\* c = [0,1,0], bond_length = 1, bond_angle = pi/2, torsion_angle = 0.
Fixture ==
    /\ pd_a = Arr(<<1, 0, 0>>)
    /\ pd_b = Arr(<<0, 0, 0>>)
    /\ pd_c = Arr(<<0, 1, 0>>)
    /\ pd_bond_length = 1
    /\ pd_bond_angle = 1
    /\ pd_torsion_angle = Q(0)

\* d satisfies the bond length, the bond angle at c and the torsion about b-c
\* for the series a, b, c, d: with b1 = b-a, b2 = c-b, b3 = d-c and the plane
\* normals n1 = b1 x b2, n2 = b2 x b3,
\*   |b3| = L,  (b-c).b3 = |b2| L cos(angle),
\*   n1.n2 = |n1| |b2| L sin(angle) cos(torsion),
\*   (n1 x n2).b2 = |n1| |b2|^2 L sin(angle) sin(torsion).
Satisfies(d) ==
    LET b1 == Sub(pd_b.v, pd_a.v)
        b2 == Sub(pd_c.v, pd_b.v)
        b3 == Sub(d, pd_c.v)
        n1 == cross(b1, b2)
        n2 == cross(b2, b3)
        L == pd_bond_length
    IN  /\ Dot(b3, b3) = L * L
        /\ Dot(Sub(pd_b.v, pd_c.v), b3) = norm(b2) * L * Cos4(pd_bond_angle)
        /\ Dot(n1, n2) = norm(n1) * norm(b2) * L * Sin4(pd_bond_angle)
                            * Cos4(pd_torsion_angle.q)
        /\ Dot(cross(n1, n2), b2) =
              norm(n1) * norm(b2) * norm(b2) * L * Sin4(pd_bond_angle)
                  * Sin4(pd_torsion_angle.q)

\* a, b, c are collinear or b = c: the frame of place_dihedral is undefined.
Degenerate ==
    cross(Sub(pd_b.v, pd_a.v), Sub(pd_c.v, pd_b.v)) = <<0, 0, 0>>

\* C11: every call with the fixture's arguments returns d = [1,1,0]; every call
\* with 1-d points that span a frame and a defined torsion returns a point that
\* satisfies the bond length, the bond angle at c and the torsion about b-c (for
\* the fixture: distance 1 from c, a right angle at c, d on the side of a); a
\* call returns unless a point is not 1-d.
C11_FixturePlacement ==
    /\ Fixture => \A j \in 1..Len(pd_out) : pd_out[j] = Arr(<<1, 1, 0>>)
    /\ \A j \in 1..Len(pd_out) :
          IF Degenerate \/ pd_torsion_angle.nan
          THEN pd_out[j].nan
          ELSE ~pd_out[j].nan /\ Satisfies(pd_out[j].v)
    /\ pd_pc = "returned" => (pd_ndim = 1 /\ pd_out # <<>> /\ pd_error = "none")
    /\ pd_pc = "raised" => (pd_ndim # 1 /\ pd_out = <<>>)

\* C11 witness: the fixture's arguments after two calls, both of which gave
\* [1,1,0].
C11_Witness ==
    /\ Fixture
    /\ pd_ndim = 1
    /\ pd_pc = "returned"
    /\ Len(pd_out) = 2
    /\ pd_out[1] = Arr(<<1, 1, 0>>)
    /\ pd_out[2] = Arr(<<1, 1, 0>>)

\* ------------------------------------- properties: the bond table lookups

\* A per-residue sequence that has an element for residue index idx.
Covers(v, idx) == v.kind = "seq" /\ idx + 1 \in 1..Len(v.seq)

\* The lookup of entry v at residue index idx does what is claimed of it: a
\* scalar of either numeric kind comes back unchanged, a per-residue sequence
\* gives its element idx, and a sequence without that element fails with an
\* index error.
LookupAsClaimed(v, idx) ==
    CASE v.kind \in {"float", "int"} ->
            Lookup(v, idx).ok /\ Lookup(v, idx).val = v.val
      [] Covers(v, idx) ->
            Lookup(v, idx).ok /\ Lookup(v, idx).val = v.seq[idx + 1]
      [] OTHER ->
            ~Lookup(v, idx).ok /\ Lookup(v, idx).err = "IndexError"

\* C12 (as claimed): every lookup the build makes (the bond angle, then the bond
\* length, of the bond being placed at residue i) does what is claimed of it;
\* a read fails at a lookup only with an index error, only when a per-residue
\* sequence does not cover residue i, and then nothing is cached.
C12_LookupContract ==
    /\ (pc = "building" /\ k < 3) =>
          /\ LookupAsClaimed(bond_angles[BondOrder[k + 1]], i)
          /\ get_bond_angle(BondOrder[k + 1], i).ok =>
                LookupAsClaimed(bond_lengths[BondOrder[k + 1]], i)
    /\ (pc = "ready" /\ lastRead.raised /\ ~SliceRaises) =>
          /\ error = "IndexError"
          /\ ~cart_cache.has
          /\ \/ (bond_angles[BondOrder[k + 1]].kind = "seq"
                    /\ ~Covers(bond_angles[BondOrder[k + 1]], i))
             \/ (bond_lengths[BondOrder[k + 1]].kind = "seq"
                    /\ ~Covers(bond_lengths[BondOrder[k + 1]], i))

\* ------------------------------------- properties: sample

\* C13 (as claimed): sample never fails and returns exactly n trajectories; in
\* every batch the number of sampled lengths equals the number of noise rows,
\* so each length index is a row of the batch when p_sample fills the attention
\* mask and when the batch is trimmed.
C13_SampleReturnsN ==
    /\ sm_pc # "raised"
    /\ sm_error = "none"
    /\ sm_pc = "in_loop" => (n_lengths = n_rows /\ ~MaskRaises)
    /\ sm_pc = "done" => Len(sample_retval) = n_samples
    /\ \A j \in 1..Len(sample_retval) :
          sample_retval[j][2] < groups[sample_retval[j][1] + 1]

====
